---- MODULE Spec2Model ----
(***************************************************************************)
(* A model of html_parser.py: the extraction of file-listing records from  *)
(* the rows of an HTML directory listing and their rendering as INI text.  *)
(*                                                                         *)
(* A Python str is modelled as a sequence of one-character strings, so     *)
(* that slicing, searching and stripping are computed character by         *)
(* character as the code computes them.  Indices returned by find/rfind    *)
(* are Python's (0-based, -1 when absent).                                 *)
(***************************************************************************)
EXTENDS Integers, Sequences, FiniteSets, TLC

VARIABLES
    pc,            \* position of the function (or of main) being run
    title,         \* clean_title: its argument
    cleaned,       \* clean_title: the value it returns
    url,           \* get_dir_from_url: its argument
    path_value,    \* get_dir_from_url: the value it returns
    rows,          \* parse_html_to_database: soup.find_all('tr') of the document
    content_list,  \* parse_html_to_database: the value it returns
    database,      \* generate_ini_format: its argument (main: the parsed records)
    ini_result,    \* generate_ini_format: the value it returns
    html_file,     \* main: the file at the path given (status, and rows if read)
    stdout,        \* main: the characters written to standard output
    stderr,        \* the messages written to the error stream
    exit_code      \* main: -1 while running, then the process's exit code

vars == <<pc, title, cleaned, url, path_value, rows, content_list, database,
          ini_result, html_file, stdout, stderr, exit_code>>

-----------------------------------------------------------------------------
(* Bounds of the model.                                                    *)

MaxTitleLen == 4

-----------------------------------------------------------------------------
(* Python's str operations.                                                *)

\* The whitespace str.strip() removes and \s matches, as far as a TLA+
\* string can write it (the vertical tab and the separators 0x1C..0x1F
\* are left out).
Whitespace == {" ", "\t", "\n", "\r", "\f"}

\* All sequences over S of length at most n.
SeqsUpTo(S, n) == UNION {[1..k -> S] : k \in 0..n}

\* s.rfind(c): the 0-based index of the last c in s, -1 when there is none.
rfind(s, c) ==
    IF \E i \in 1..Len(s) : s[i] = c
    THEN (CHOOSE i \in 1..Len(s) : s[i] = c /\ \A j \in (i+1)..Len(s) : s[j] # c) - 1
    ELSE -1

\* s.find(c, start): the 0-based index of the first c at or after start.
find(s, c, start) ==
    IF \E i \in (start+1)..Len(s) : s[i] = c
    THEN (CHOOSE i \in (start+1)..Len(s) :
              s[i] = c /\ \A j \in (start+1)..(i-1) : s[j] # c) - 1
    ELSE -1

\* s[:k] and s[k:] for 0 <= k.
Take(s, k) == SubSeq(s, 1, IF k < Len(s) THEN k ELSE Len(s))
Drop(s, k) == SubSeq(s, k + 1, Len(s))

RECURSIVE lstrip(_)
lstrip(s) ==
    IF s # <<>> /\ Head(s) \in Whitespace THEN lstrip(Tail(s)) ELSE s

RECURSIVE rstrip(_)
rstrip(s) ==
    IF s # <<>> /\ s[Len(s)] \in Whitespace
    THEN rstrip(SubSeq(s, 1, Len(s) - 1))
    ELSE s

strip(s) == lstrip(rstrip(s))

RECURSIVE Concat(_)
Concat(ss) == IF ss = <<>> THEN <<>> ELSE Head(ss) \o Concat(Tail(ss))

-----------------------------------------------------------------------------
(* clean_title                                                             *)

FORBIDDEN_CHARS == {"!", "+"}

\* forbidden_regex.sub('', s): every character of the class removed.
RECURSIVE sub_forbidden(_)
sub_forbidden(s) ==
    IF s = <<>> THEN <<>>
    ELSE IF Head(s) \in FORBIDDEN_CHARS THEN sub_forbidden(Tail(s))
    ELSE <<Head(s)>> \o sub_forbidden(Tail(s))

\* Mutant: the extension is cut whenever a '.' is found (>= 0), also when
\* it is the first character.
clean_title_anydot(t) ==
    LET last_dot_index == rfind(t, ".")
        title_no_ext == IF last_dot_index >= 0 THEN Take(t, last_dot_index) ELSE t
    IN  strip(sub_forbidden(title_no_ext))

\* Mutant: the slice title[:last_dot_index] is taken without the test, so
\* that rfind's -1 drops the last character.
clean_title_noguard(t) ==
    LET last_dot_index == rfind(t, ".")
        title_no_ext == IF last_dot_index >= 0 THEN Take(t, last_dot_index)
                        ELSE SubSeq(t, 1, Len(t) - 1)
    IN  strip(sub_forbidden(title_no_ext))

clean_title(t) ==
    LET last_dot_index == rfind(t, ".")
        title_no_ext == IF last_dot_index > 0 THEN Take(t, last_dot_index) ELSE t
        cleaned_ == sub_forbidden(title_no_ext)
    IN  strip(cleaned_)

-----------------------------------------------------------------------------
(* The specification of clean_title: a title is drawn, the function is     *)
(* applied once, and applied again to its own result.                      *)

TitleChars == {"a", ".", "!", "+", " "}

GameTitleZip == <<"G","a","m","e"," ","T","i","t","l","e",".","z","i","p">>
UltraMix7z   == <<"U","l","t","r","a","!","+","M","i","x",".","7","z">>
NoExt        == <<"n","o","e","x","t">>

Titles == SeqsUpTo(TitleChars, MaxTitleLen) \cup {GameTitleZip, UltraMix7z, NoExt}

IdleTitle == title = <<>> /\ cleaned = <<>>
IdleUrl   == url = <<>> /\ path_value = <<>>
IdleParse == rows = <<>> /\ content_list = <<>>
IdleIni   == database = <<>> /\ ini_result = <<>>
IdleMain  == html_file = [status |-> "none", rows |-> <<>>] /\ stdout = <<>> /\ stderr = <<>> /\ exit_code = -1

InitTitle ==
    /\ pc = "call"
    /\ title \in Titles
    /\ cleaned = <<>>
    /\ IdleUrl /\ IdleParse /\ IdleIni /\ IdleMain

CleanTitle ==
    /\ pc = "call"
    /\ cleaned' = clean_title(title)
    /\ pc' = "return"
    /\ UNCHANGED <<title, url, path_value, rows, content_list, database,
                   ini_result, html_file, stdout, stderr, exit_code>>

\* The function applied to its own result (cleanTitle(cleanTitle(x))).
CleanTitleAgain ==
    /\ pc = "return"
    /\ cleaned' = clean_title(cleaned)
    /\ pc' = "again"
    /\ UNCHANGED <<title, url, path_value, rows, content_list, database,
                   ini_result, html_file, stdout, stderr, exit_code>>

NextTitle == CleanTitle \/ CleanTitleAgain

SpecTitle == InitTitle /\ [][NextTitle]_vars

-----------------------------------------------------------------------------
(* Claims about clean_title.                                               *)

NotForbidden(c) == c \notin {"!", "+"}

\* t is s without its leading and trailing whitespace.
IsTrimOf(t, s) ==
    /\ t = <<>> \/ (t[1] \notin Whitespace /\ t[Len(t)] \notin Whitespace)
    /\ \E i, j \in 0..Len(s) :
          /\ i + j <= Len(s)
          /\ \A k \in 1..i : s[k] \in Whitespace
          /\ \A k \in (Len(s) - j + 1)..Len(s) : s[k] \in Whitespace
          /\ t = SubSeq(s, i + 1, Len(s) - j)

\* The title up to its last '.', unless that '.' is the first character or
\* there is none.
WithoutExtension(t) ==
    LET dots == {i \in 1..Len(t) : t[i] = "."}
    IN  IF dots = {} \/ dots = {1} THEN t
        ELSE SubSeq(t, 1, (CHOOSE i \in dots : \A j \in dots : j <= i) - 1)

\* C5: clean_title returns the title cut before its last '.' (unless that
\* '.' is the first character or there is none), with every '!' and '+'
\* removed, then trimmed; the result holds no '!' and no '+'; and
\* 'Game Title.zip' gives 'Game Title', 'Ultra!+Mix.7z' gives 'UltraMix',
\* 'noext' gives 'noext'.
C5_CleanTitle ==
    pc = "return" =>
        /\ IsTrimOf(cleaned, SelectSeq(WithoutExtension(title), NotForbidden))
        /\ \A i \in 1..Len(cleaned) : cleaned[i] \notin {"!", "+"}
        /\ title = GameTitleZip =>
               cleaned = <<"G","a","m","e"," ","T","i","t","l","e">>
        /\ title = UltraMix7z => cleaned = <<"U","l","t","r","a","M","i","x">>
        /\ title = NoExt => cleaned = NoExt

\* A title where all three steps act: an extension after a leading '.',
\* a forbidden character, and whitespace to trim.
C5_Witness ==
    /\ pc = "return"
    /\ title = <<" ", "!", ".", "a">>
    /\ cleaned = <<>>

\* The precondition of the idempotence claim: no extension to cut (no '.'
\* after the first character) and no forbidden character.
FreeOfExtensionAndForbidden(t) ==
    /\ \A i \in 2..Len(t) : t[i] # "."
    /\ \A i \in 1..Len(t) : t[i] \notin {"!", "+"}

\* C6: on a title free of a trailing extension and of forbidden characters,
\* applying clean_title to its own result changes nothing.
C6_Idempotent ==
    [][(pc = "return" /\ FreeOfExtensionAndForbidden(title)) => cleaned' = cleaned]_vars

\* Such a title that the first application does change (it is trimmed).
C6_Witness ==
    /\ pc = "again"
    /\ FreeOfExtensionAndForbidden(title)
    /\ title = <<" ", "a", " ">>
    /\ cleaned = <<"a">>

-----------------------------------------------------------------------------
(* urllib.parse, as get_dir_from_url uses it.                              *)

MaxUrlLen == 4

UpperLetters == <<"A", "B", "C", "D", "E", "F", "G", "H", "I", "J", "K", "L", "M",
                  "N", "O", "P", "Q", "R", "S", "T", "U", "V", "W", "X", "Y", "Z">>
LowerLetters == <<"a", "b", "c", "d", "e", "f", "g", "h", "i", "j", "k", "l", "m",
                  "n", "o", "p", "q", "r", "s", "t", "u", "v", "w", "x", "y", "z">>
Digits == {"0", "1", "2", "3", "4", "5", "6", "7", "8", "9"}

IsUpper(c) == \E i \in 1..26 : UpperLetters[i] = c
IsLower(c) == \E i \in 1..26 : LowerLetters[i] = c

\* str.lower() on one character, and on a string.
lower_char(c) ==
    IF IsUpper(c) THEN LowerLetters[CHOOSE i \in 1..26 : UpperLetters[i] = c] ELSE c

lower(s) == [i \in 1..Len(s) |-> lower_char(s[i])]

\* urllib.parse.scheme_chars
scheme_chars ==
    {UpperLetters[i] : i \in 1..26} \cup {LowerLetters[i] : i \in 1..26}
        \cup Digits \cup {"+", "-", "."}

\* urllib.parse.uses_params
uses_params == {<<>>,
    <<"f", "t", "p">>,
    <<"h", "d", "l">>,
    <<"p", "r", "o", "s", "p", "e", "r", "o">>,
    <<"h", "t", "t", "p">>,
    <<"i", "m", "a", "p">>,
    <<"h", "t", "t", "p", "s">>,
    <<"s", "h", "t", "t", "p">>,
    <<"r", "t", "s", "p">>,
    <<"r", "t", "s", "p", "s">>,
    <<"r", "t", "s", "p", "u">>,
    <<"s", "i", "p">>,
    <<"s", "i", "p", "s">>,
    <<"m", "m", "s">>,
    <<"s", "f", "t", "p">>,
    <<"t", "e", "l">>}

\* url.lstrip(_WHATWG_C0_CONTROL_OR_SPACE): the C0 controls and the space
\* (of which a modelled str can hold those of Whitespace).
RECURSIVE lstrip_c0(_)
lstrip_c0(s) ==
    IF s # <<>> /\ Head(s) \in Whitespace THEN lstrip_c0(Tail(s)) ELSE s

\* url.replace(b, "") for b in _UNSAFE_URL_BYTES_TO_REMOVE
IsSafeUrlChar(c) == c \notin {"\t", "\r", "\n"}
remove_unsafe(s) == SelectSeq(s, IsSafeUrlChar)

\* The index (0-based) at which the netloc that starts at 2 ends: the first
\* of '/', '?', '#' after it, or the end of the url (_splitnetloc).
netloc_end(s) ==
    LET stops == {i \in 3..Len(s) : s[i] \in {"/", "?", "#"}}
    IN  IF stops = {} THEN Len(s)
        ELSE (CHOOSE i \in stops : \A j \in stops : i <= j) - 1

\* s.split(c, 1)[0]: s up to its first c.
before(s, c) == IF find(s, c, 0) >= 0 THEN Take(s, find(s, c, 0)) ELSE s

\* urlsplit, its last step: the fragment and the query are cut off the
\* path.  A netloc holding one bracket without the other raises
\* ValueError("Invalid IPv6 URL"); the check of a bracketed host
\* (_check_bracketed_host) is not modelled, and no url drawn holds both
\* brackets.
split_path(scheme, netloc, u) ==
    [raises |-> (\E k \in 1..Len(netloc) : netloc[k] = "[")
                    # (\E k \in 1..Len(netloc) : netloc[k] = "]"),
     scheme |-> scheme,
     netloc |-> netloc,
     path   |-> before(before(u, "#"), "?")]

\* urlsplit, from if url[:2] == '//' on.
split_netloc(scheme, u) ==
    IF Len(u) >= 2 /\ u[1] = "/" /\ u[2] = "/"
    THEN split_path(scheme, SubSeq(u, 3, netloc_end(u)), Drop(u, netloc_end(u)))
    ELSE split_path(scheme, <<>>, u)

\* The test of a scheme that ends before index i.
has_scheme(u, i) ==
    /\ i > 0
    /\ IsUpper(u[1]) \/ IsLower(u[1])
    /\ \A k \in 1..i : u[k] \in scheme_chars

\* urlsplit, from i = url.find(':') on.
split_scheme(u) ==
    IF has_scheme(u, find(u, ":", 0))
    THEN split_netloc(lower(Take(u, find(u, ":", 0))), Drop(u, find(u, ":", 0) + 1))
    ELSE split_netloc(<<>>, u)

\* urlsplit(url): [raises, scheme, netloc, path], the query and the fragment
\* dropped.
urlsplit(url0) == split_scheme(remove_unsafe(lstrip_c0(url0)))

\* _splitparams(url)[0]
splitparams(u) ==
    LET i == IF find(u, "/", 0) >= 0 THEN find(u, ";", rfind(u, "/"))
             ELSE find(u, ";", 0)
    IN  IF i < 0 THEN u ELSE Take(u, i)

\* urlparse, after urlsplit: the parameters are cut off the path of a url
\* whose scheme uses them.
urlparse_params(splitresult) ==
    [raises |-> splitresult.raises,
     path |-> IF splitresult.scheme \in uses_params /\ find(splitresult.path, ";", 0) >= 0
              THEN splitparams(splitresult.path)
              ELSE splitresult.path]

\* urlparse(url): [raises, path]
urlparse(url0) == urlparse_params(urlsplit(url0))

\* chr(n) for the ASCII range; a control character without a TLA+ escape,
\* and the grave accent, are written <XX>.
Chr == <<
    "<00>", "<01>", "<02>", "<03>", "<04>", "<05>", "<06>", "<07>",
    "<08>", "\t", "\n", "<0B>", "\f", "\r", "<0E>", "<0F>",
    "<10>", "<11>", "<12>", "<13>", "<14>", "<15>", "<16>", "<17>",
    "<18>", "<19>", "<1A>", "<1B>", "<1C>", "<1D>", "<1E>", "<1F>",
    " ", "!", "\"", "#", "$", "%", "&", "'",
    "(", ")", "*", "+", ",", "-", ".", "/",
    "0", "1", "2", "3", "4", "5", "6", "7",
    "8", "9", ":", ";", "<", "=", ">", "?",
    "@", "A", "B", "C", "D", "E", "F", "G",
    "H", "I", "J", "K", "L", "M", "N", "O",
    "P", "Q", "R", "S", "T", "U", "V", "W",
    "X", "Y", "Z", "[", "\\", "]", "^", "_",
    "<60>", "a", "b", "c", "d", "e", "f", "g",
    "h", "i", "j", "k", "l", "m", "n", "o",
    "p", "q", "r", "s", "t", "u", "v", "w",
    "x", "y", "z", "{", "|", "}", "~", "<7F>">>

\* _hexdig and the value of a hexadecimal digit.
HexDigits == <<"0", "1", "2", "3", "4", "5", "6", "7", "8", "9",
               "a", "b", "c", "d", "e", "f">>
IsHexDigit(c) == \E i \in 1..16 : HexDigits[i] = lower_char(c)
HexValue(c) == (CHOOSE i \in 1..16 : HexDigits[i] = lower_char(c)) - 1

\* The character a %xx escape decodes to (utf-8, errors='replace').  A byte
\* of 0x80 and above is given as U+FFFD, which is what the decoder yields
\* for it when no continuation byte (0x80..0xBF) stands next to it: the
\* urls drawn hold no hexadecimal digit 8..B.
unquote_byte(a, b) ==
    LET n == HexValue(a) * 16 + HexValue(b)
    IN  IF n < 128 THEN Chr[n + 1] ELSE "<U+FFFD>"

\* unquote(string): every %xx with two hexadecimal digits replaced, any
\* other '%' kept.
RECURSIVE unquote(_)
unquote(s) ==
    IF s = <<>> THEN <<>>
    ELSE IF s[1] = "%" /\ Len(s) >= 3 /\ IsHexDigit(s[2]) /\ IsHexDigit(s[3])
    THEN <<unquote_byte(s[2], s[3])>> \o unquote(Drop(s, 3))
    ELSE <<s[1]>> \o unquote(Tail(s))

-----------------------------------------------------------------------------
(* get_dir_from_url                                                        *)

\* Whether the try block raises (urlparse is the only call in it that can).
get_dir_raises(u) == urlparse(u).raises

\* Lines 40-41: a leading slash removed.
strip_leading_slash(path_decoded) ==
    IF path_decoded # <<>> /\ path_decoded[1] = "/"
    THEN Drop(path_decoded, 1)
    ELSE path_decoded

\* Lines 44-48: everything before the last slash.
before_last_slash(path_decoded) ==
    IF rfind(path_decoded, "/") = -1 THEN <<>>
    ELSE Take(path_decoded, rfind(path_decoded, "/"))

\* Mutant of lines 44-48: the path is cut at its first '/'.
before_first_slash(path_decoded) ==
    IF find(path_decoded, "/", 0) = -1 THEN <<>>
    ELSE Take(path_decoded, find(path_decoded, "/", 0))

\* Lines 32-52, given what urlparse returned or that it raised.
get_dir_try(parsed_url) ==
    IF parsed_url.raises THEN <<>>
    ELSE before_last_slash(strip_leading_slash(unquote(parsed_url.path)))

get_dir_try_firstslash(parsed_url) ==
    IF parsed_url.raises THEN <<>>
    ELSE before_first_slash(strip_leading_slash(unquote(parsed_url.path)))

\* Mutant: the path is cut at its first '/' instead of its last.
get_dir_from_url_firstslash(u) == get_dir_try_firstslash(urlparse(u))

get_dir_from_url(u) == get_dir_try(urlparse(u))

\* What get_dir_from_url prints to the error stream.
get_dir_stderr(u) == IF get_dir_raises(u) THEN <<"url_parse_error">> ELSE <<>>

-----------------------------------------------------------------------------
(* The specification of get_dir_from_url: an href is drawn and the         *)
(* function applied.                                                       *)

UrlChars == {"a", "/", "%", "2", "F", "?", "#", ";", ":"}

XboxHref ==
    <<"/", "f", "i", "l", "e", "s", "/", "R", "e", "d", "u", "m", "p", "/",
      "M", "i", "c", "r", "o", "s", "o", "f", "t", "%", "2", "0", "-", "%", "2", "0",
      "X", "b", "o", "x", "%", "2", "0", "3", "6", "0", "/",
      "f", "i", "l", "e", ".", "z", "i", "p">>
XboxDir ==
    <<"f", "i", "l", "e", "s", "/", "R", "e", "d", "u", "m", "p", "/",
      "M", "i", "c", "r", "o", "s", "o", "f", "t", " ", "-", " ",
      "X", "b", "o", "x", " ", "3", "6", "0">>
ExampleComHref ==
    <<"h", "t", "t", "p", ":", "/", "/", "e", "x", "a", "m", "p", "l", "e", ".",
      "c", "o", "m", "/", "p", "a", "t", "h", "/", "t", "o", "/",
      "f", "i", "l", "e", ".", "z", "i", "p">>
HttpParamsHref ==
    <<"h", "t", "t", "p", ":", "/", "/", "h", "/", "a", "/", "b", ";", "%", "2", "F", "c">>
DoubleSlashHref ==
    <<"h", "t", "t", "p", ":", "/", "/", "h", "/", "/", "a", "/", "b">>
BadIPv6Href == <<"/", "/", "[", "/", "a", "/", "b">>

Urls == SeqsUpTo(UrlChars, MaxUrlLen)
            \cup {XboxHref, ExampleComHref, HttpParamsHref, DoubleSlashHref,
                  BadIPv6Href}

InitUrl ==
    /\ pc = "call"
    /\ url \in Urls
    /\ path_value = <<>>
    /\ IdleTitle /\ IdleParse /\ IdleIni /\ IdleMain

GetDirFromUrl ==
    /\ pc = "call"
    /\ path_value' = get_dir_from_url(url)
    /\ stderr' = stderr \o get_dir_stderr(url)
    /\ pc' = "return"
    /\ UNCHANGED <<title, cleaned, url, rows, content_list, database,
                   ini_result, html_file, stdout, exit_code>>

NextUrl == GetDirFromUrl

SpecUrl == InitUrl /\ [][NextUrl]_vars

-----------------------------------------------------------------------------
(* Claims about get_dir_from_url.                                          *)

\* The url's path component, percent-decoded, less one leading '/'.
DecodedPath(u) ==
    LET p == unquote(urlparse(u).path)
    IN  IF p # <<>> /\ p[1] = "/" THEN SubSeq(p, 2, Len(p)) ELSE p

HasSlash(s) == \E i \in 1..Len(s) : s[i] = "/"

\* C7, amended: get_dir_from_url returns the path component of the href,
\* percent-decoded and less one leading slash, cut before its final '/':
\* the decoded path is the result, a '/', and a last segment free of '/';
\* the result is empty when no '/' remains; and the Xbox 360 href gives
\* 'files/Redump/Microsoft - Xbox 360'.
C7_GetDirFromUrl ==
    (pc = "return" /\ ~urlparse(url).raises) =>
        /\ ~HasSlash(DecodedPath(url)) => path_value = <<>>
        /\ HasSlash(DecodedPath(url)) =>
               /\ Len(path_value) < Len(DecodedPath(url))
               /\ path_value = SubSeq(DecodedPath(url), 1, Len(path_value))
               /\ DecodedPath(url)[Len(path_value) + 1] = "/"
               /\ ~HasSlash(SubSeq(DecodedPath(url), Len(path_value) + 2,
                                   Len(DecodedPath(url))))
        /\ url = XboxHref => path_value = XboxDir
        /\ stderr = <<>>

\* C7 as stated: the same, the directory returned being without a leading
\* slash.
C7_NoLeadingSlash ==
    /\ C7_GetDirFromUrl
    /\ pc = "return" => (path_value = <<>> \/ path_value[1] # "/")

\* An href with parameters after an escaped '/' in its last segment.
C7_Witness ==
    /\ pc = "return"
    /\ url = HttpParamsHref
    /\ path_value = <<"a">>

-----------------------------------------------------------------------------
(* The parsed document.  BeautifulSoup's tree is modelled by what the code *)
(* asks of it: the rows (tr) in document order; in a row its links (a) and *)
(* its cells (td) in document order; of a link whether it has an href, the *)
(* href and its text nodes; of a cell its class tokens and its text nodes. *)

MaxRows == 2
MaxLinks == 2
MaxCells == 2
MaxTextLen == 4

\* tag.get_text(strip=True): each text node stripped, the empty ones
\* dropped, the rest joined.
get_text(strings) == Concat([i \in 1..Len(strings) |-> strip(strings[i])])

\* The alternatives of size_units_regex, in lower case (re.IGNORECASE).
size_units == {
    <<"k">>, <<"m">>, <<"g">>, <<"t">>, <<"p">>,
    <<"k", "i", "b">>, <<"m", "i", "b">>, <<"g", "i", "b">>, <<"t", "i", "b">>,
    <<"p", "i", "b">>,
    <<"k", "b">>, <<"m", "b">>, <<"g", "b">>, <<"t", "b">>, <<"p", "b">>,
    <<"b", "y", "t", "e", "s">>}

\* \d+ matches the whole of s.
IsDigits(s) == s # <<>> /\ \A i \in 1..Len(s) : s[i] \in Digits

\* \d+(\.\d+)? matches the whole of s.
IsNumber(s) ==
    \/ IsDigits(s)
    \/ \E k \in 1..Len(s) :
          /\ s[k] = "."
          /\ IsDigits(SubSeq(s, 1, k - 1))
          /\ IsDigits(SubSeq(s, k + 1, Len(s)))

\* Mutant: the number made optional, (\d+(\.\d+)?)?
size_regex_search_optnum(text) ==
    \E i \in 1..(Len(text) + 1) : \E a \in (i - 1)..Len(text) : \E b \in {a, a + 1} :
        /\ a = i - 1 \/ IsNumber(SubSeq(text, i, a))
        /\ b <= Len(text)
        /\ b = a + 1 => text[b] \in Whitespace
        /\ lower(SubSeq(text, b + 1, Len(text))) \in size_units

\* re.search(size_units_regex, text, re.IGNORECASE): from some position i
\* on, the number text[i..a], at most one whitespace character (\s?), and
\* a unit that ends where the text ends (\Z).
size_regex_search(text) ==
    \E i \in 1..Len(text) : \E a \in i..Len(text) : \E b \in {a, a + 1} :
        /\ IsNumber(SubSeq(text, i, a))
        /\ b <= Len(text)
        /\ b = a + 1 => text[b] \in Whitespace
        /\ lower(SubSeq(text, b + 1, Len(text))) \in size_units

\* Mutant: the test of the href is left out.
find_anchor_textonly(row) ==
    LET ok == {i \in 1..Len(row.links) :
                  /\ row.links[i].has_href
                  /\ get_text(row.links[i].strings) # <<".", ".">>}
    IN  IF ok = {} THEN 0 ELSE CHOOSE i \in ok : \A j \in ok : i <= j

\* Lines 71-77: the index in row.links of the first link with an href
\* whose text is not '..' and whose href is not '..'; 0 when there is none.
find_anchor(row) ==
    LET ok == {i \in 1..Len(row.links) :
                  /\ row.links[i].has_href
                  /\ get_text(row.links[i].strings) # <<".", ".">>
                  /\ row.links[i].href # <<".", ".">>}
    IN  IF ok = {} THEN 0 ELSE CHOOSE i \in ok : \A j \in ok : i <= j

\* row.find('td', class_='size'): the index of the first cell one of whose
\* class tokens is 'size'; 0 when there is none.
find_size_cell(row) ==
    LET ok == {i \in 1..Len(row.cells) : "size" \in row.cells[i].class}
    IN  IF ok = {} THEN 0 ELSE CHOOSE i \in ok : \A j \in ok : i <= j

\* Lines 92-102: the text of the first cell the regex finds a size in; ''
\* when there is none.
find_size_fallback(row) ==
    LET ok == {i \in 1..Len(row.cells) :
                  size_regex_search(get_text(row.cells[i].strings))}
    IN  IF ok = {} THEN <<>>
        ELSE get_text(row.cells[CHOOSE i \in ok : \A j \in ok : i <= j].strings)

\* Mutant: the scan of all cells is tried first, the class 'size' last.
find_size_scanfirst(row) ==
    LET size_cell_myrient == find_size_cell(row)
    IN  IF find_size_fallback(row) # <<>> THEN find_size_fallback(row)
        ELSE IF size_cell_myrient # 0
        THEN get_text(row.cells[size_cell_myrient].strings)
        ELSE <<>>

\* Lines 84-102: item_size.
find_size(row) ==
    LET size_cell_myrient == find_size_cell(row)
        item_size == IF size_cell_myrient # 0
                     THEN get_text(row.cells[size_cell_myrient].strings)
                     ELSE <<>>
    IN  IF item_size # <<>> THEN item_size ELSE find_size_fallback(row)

\* Lines 105-120: the record of a row that has an anchor and a size.
row_record(row) ==
    LET anchor == row.links[find_anchor(row)]
        item_title == get_text(anchor.strings)
        data_url == anchor.href
    IN  [unique_title |-> clean_title(item_title),
         itemTitle    |-> item_title,
         itemVersion  |-> <<>>,
         itemAuthor   |-> <<>>,
         itemSize     |-> find_size(row),
         path         |-> get_dir_from_url(data_url),
         dataurl      |-> data_url]

\* One turn of the loop over the rows: what it appends to content_list.
row_records(row) ==
    IF find_anchor(row) = 0 THEN <<>>
    ELSE IF find_size(row) = <<>> THEN <<>>
    ELSE <<row_record(row)>>

\* Mutant: a row without an anchor ends the loop (break for continue).
RECURSIVE parse_html_to_database_break(_)
parse_html_to_database_break(rs) ==
    IF rs = <<>> THEN <<>>
    ELSE IF find_anchor(Head(rs)) = 0 THEN <<>>
    ELSE row_records(Head(rs)) \o parse_html_to_database_break(Tail(rs))

RECURSIVE parse_html_to_database(_)
parse_html_to_database(rs) ==
    IF rs = <<>> THEN <<>>
    ELSE row_records(Head(rs)) \o parse_html_to_database(Tail(rs))

\* What the calls of get_dir_from_url print while the rows are parsed.
RECURSIVE parse_stderr(_)
parse_stderr(rs) ==
    IF rs = <<>> THEN <<>>
    ELSE (IF row_records(Head(rs)) = <<>> THEN <<>>
          ELSE get_dir_stderr(row_record(Head(rs)).dataurl))
         \o parse_stderr(Tail(rs))

-----------------------------------------------------------------------------
(* The specification of parse_html_to_database: a document is drawn and    *)
(* the function applied.  The documents drawn are: sequences of rows of    *)
(* several shapes; one row whose links vary; one row whose cells vary;     *)
(* one row whose single cell holds any short text.                         *)

DotDot   == <<".", ".">>
FileZip  == <<"f", ".", "z">>
GameIso  == <<"g", ".", "i">>
HrefFile == <<"/", "d", "/", "f", ".", "z">>
HrefGame == <<"g", ".", "i">>
Size65GiB == <<"6", ".", "5", " ", "G", "i", "B">>
Size400M  == <<"4", "0", "0", "M">>
Size1K    == <<"1", "K">>

Link(has, href, strings) == [has_href |-> has, href |-> href, strings |-> strings]
Cell(class, strings) == [class |-> class, strings |-> strings]
Row(links, cells) == [links |-> links, cells |-> cells]

GoodLink   == Link(TRUE, HrefFile, <<FileZip>>)
ParentLink == Link(TRUE, DotDot, <<DotDot>>)
SizeCell   == Cell({"size"}, <<Size1K>>)

\* An a element: without href, or with an href among these; its text '..',
\* '..' between spaces, '..' in two text nodes, or a file name.
Links ==
    {Link(FALSE, <<>>, s) : s \in {<<DotDot>>, <<FileZip>>}}
    \cup {Link(TRUE, h, s) :
            h \in {DotDot, HrefFile, HrefGame, <<>>},
            s \in {<<DotDot>>, << <<" ", ".", ".", " ">> >>, << <<".">>, <<".">> >>,
                   <<FileZip>>, <<GameIso>>}}

\* A td element: its class absent, 'size', 'size' among others, or another;
\* its text empty, blank, a size, or not a size.
Cells ==
    {Cell(c, s) :
        c \in {{}, {"size"}, {"right", "size"}, {"Size"}},
        s \in {<<>>, << <<" ">> >>, << <<" ">>, Size65GiB, <<"\n">> >>, <<Size400M>>,
               << <<"b", "i", "g">> >>}}

\* The rows of the documents of several rows.
RowShapes ==
    {Row(<<GoodLink>>, <<Cell({}, <<FileZip>>), SizeCell>>),
     Row(<<Link(TRUE, HrefGame, <<GameIso>>)>>, <<Cell({}, <<GameIso>>), Cell({}, <<Size400M>>)>>),
     Row(<<ParentLink>>, <<Cell({}, <<DotDot>>), SizeCell>>),
     Row(<<ParentLink, GoodLink>>, <<SizeCell>>),
     Row(<<GoodLink>>, <<Cell({}, <<FileZip>>), Cell({"size"}, <<>>)>>),
     Row(<<Link(TRUE, BadIPv6Href, <<GameIso>>)>>, <<SizeCell>>),
     Row(<<>>, <<SizeCell>>),
     Row(<<>>, <<>>)}

SizeChars == {"1", ".", " ", "K", "i", "B"}

Bytes12 == <<"1", "2", " ", "b", "y", "t", "e", "s">>

\* The texts of the single cell: every short text over SizeChars, and
\* sizes and near-sizes of the listings.
SizeTexts ==
    SeqsUpTo(SizeChars, MaxTextLen)
    \cup {Size65GiB, Size400M, Bytes12,
          <<"1", ".", "5", "G">>, <<"1", "0", "0", "k">>,
          <<"7", "0", "0", " ", "M", "B">>, <<"7", "0", "0", " ", " ", "M", "B">>,
          <<"7", "0", "0", "\t", "m", "b">>,
          <<"b", "y", "t", "e", "s">>, <<"M">>, <<"G", "i", "B">>, <<" ", "T", "B">>,
          <<"1", " ", "B", "Y", "T", "E", "S">>, <<"1", " ", "b", "y", "t", "e">>,
          <<"x", "9", "P", "i", "b">>, <<"5", "T", " ">>, <<"5", "T", "x">>,
          <<"1", ".", "G">>, <<".", "5", "G">>, <<"2", "0", "2", "4">>}

DocsRows  == SeqsUpTo(RowShapes, MaxRows)
DocsLinks == {<<Row(ls, <<SizeCell>>)>> : ls \in SeqsUpTo(Links, MaxLinks)}
DocsCells == {<<Row(<<GoodLink>>, cs)>> : cs \in SeqsUpTo(Cells, MaxCells)}
DocsTexts == {<<Row(<<GoodLink>>, <<Cell({}, <<t>>)>>)>> : t \in SizeTexts}

Docs == DocsRows \cup DocsLinks \cup DocsCells \cup DocsTexts

InitParse ==
    /\ pc = "call"
    /\ rows \in Docs
    /\ content_list = <<>>
    /\ IdleTitle /\ IdleUrl /\ IdleIni /\ IdleMain

ParseHtmlToDatabase ==
    /\ pc = "call"
    /\ content_list' = parse_html_to_database(rows)
    /\ stderr' = stderr \o parse_stderr(rows)
    /\ pc' = "return"
    /\ UNCHANGED <<title, cleaned, url, path_value, rows, database,
                   ini_result, html_file, stdout, exit_code>>

NextParse == ParseHtmlToDatabase

SpecParse == InitParse /\ [][NextParse]_vars

-----------------------------------------------------------------------------
(* Claims about parse_html_to_database.                                    *)

\* The links of a row that qualify: with an href, neither their trimmed
\* text nor their href being '..'.
QualifyingLinks(row) ==
    {i \in 1..Len(row.links) :
        /\ row.links[i].has_href
        /\ get_text(row.links[i].strings) # DotDot
        /\ row.links[i].href # DotDot}

Least(S) == CHOOSE i \in S : \A j \in S : i <= j

\* The trimmed text of cell i of a row.
CellText(row, i) == get_text(row.cells[i].strings)

\* The units of the size pattern: K, M, G, T or P, alone or followed by
\* 'iB' or 'B', and 'bytes'; in lower case.
PatternUnits ==
    {u \o v : u \in {<<"k">>, <<"m">>, <<"g">>, <<"t">>, <<"p">>},
              v \in {<<>>, <<"i", "b">>, <<"b">>}}
    \cup {<<"b", "y", "t", "e", "s">>}

\* The lengths of the endings of the text that are a unit, whatever the
\* case.
UnitSuffixes(t) ==
    {k \in 1..Len(t) : lower(SubSeq(t, Len(t) - k + 1, Len(t))) \in PatternUnits}

\* The text ends with a number (so with a digit), at most one whitespace
\* character, and a unit.
EndsWithSize(t) ==
    \E k \in UnitSuffixes(t) :
        LET n == Len(t) - k
        IN  \/ n >= 1 /\ t[n] \in Digits
            \/ n >= 2 /\ t[n] \in Whitespace /\ t[n - 1] \in Digits

\* The text ends with a unit, before which a number and whitespace may or
\* may not stand.
EndsWithUnit(t) == UnitSuffixes(t) # {}

\* The cells of class 'size', and the first of them when its text is not
\* empty.
SizeClassCells(row) == {i \in 1..Len(row.cells) : "size" \in row.cells[i].class}

FirstSizeCellFilled(row) ==
    /\ SizeClassCells(row) # {}
    /\ CellText(row, Least(SizeClassCells(row))) # <<>>

AcceptedCells(row) == {i \in 1..Len(row.cells) : EndsWithSize(CellText(row, i))}

\* The size token of a row: the text of its first cell of class 'size' if
\* not empty, else the text of its first cell ending with a size, else ''.
SizeToken(row) ==
    IF FirstSizeCellFilled(row) THEN CellText(row, Least(SizeClassCells(row)))
    ELSE IF AcceptedCells(row) # {} THEN CellText(row, Least(AcceptedCells(row)))
    ELSE <<>>

IsQualifyingRow(row) == QualifyingLinks(row) # {} /\ SizeToken(row) # <<>>

\* The indices of the qualifying rows, in document order.
RECURSIVE QualifyingRowsFrom(_, _)
QualifyingRowsFrom(rs, i) ==
    IF i > Len(rs) THEN <<>>
    ELSE (IF IsQualifyingRow(rs[i]) THEN <<i>> ELSE <<>>) \o QualifyingRowsFrom(rs, i + 1)

\* C1: one record for every row with a qualifying link and a non-empty
\* size token, none for any other row, and record i is the one of the i-th
\* such row.
C1_OneRecordPerQualifyingRow ==
    pc = "return" =>
        LET q == QualifyingRowsFrom(rows, 1)
        IN  /\ Len(content_list) = Len(q)
            /\ \A i \in 1..Len(q) :
                  LET row == rows[q[i]]
                      link == row.links[Least(QualifyingLinks(row))]
                  IN  /\ content_list[i].itemTitle = get_text(link.strings)
                      /\ content_list[i].dataurl = link.href
                      /\ content_list[i].itemSize = SizeToken(row)

\* Two rows, the first without a qualifying link, the second qualifying.
C1_Witness ==
    /\ pc = "return"
    /\ Len(rows) = 2
    /\ ~IsQualifyingRow(rows[1])
    /\ rows[1].links # <<>>
    /\ IsQualifyingRow(rows[2])
    /\ Len(content_list) = 1

\* C2: in a row the record comes from the first link with an href whose
\* trimmed text is not '..' and whose href is not '..'; no record has '..'
\* as its itemTitle or its dataurl; a row with only parent-directory links
\* gives no record.
C2_FirstNonParentLink ==
    pc = "return" =>
        /\ \A i \in 1..Len(content_list) :
              content_list[i].itemTitle # DotDot /\ content_list[i].dataurl # DotDot
        /\ (Len(rows) = 1 /\ SizeToken(rows[1]) # <<>>) =>
              IF QualifyingLinks(rows[1]) = {} THEN content_list = <<>>
              ELSE LET link == rows[1].links[Least(QualifyingLinks(rows[1]))]
                   IN  /\ Len(content_list) = 1
                       /\ content_list[1].itemTitle = get_text(link.strings)
                       /\ content_list[1].dataurl = link.href

\* A parent-directory link by its href alone, then a qualifying link.
C2_Witness ==
    /\ pc = "return"
    /\ Len(rows) = 1
    /\ rows[1].links = <<Link(TRUE, DotDot, <<FileZip>>), Link(TRUE, HrefGame, <<GameIso>>)>>
    /\ Len(content_list) = 1
    /\ content_list[1].dataurl = HrefGame

\* C3 as stated: whenever some cell of class 'size' has a non-empty trimmed
\* text, itemSize is that text.
C3_AnySizeCell ==
    (pc = "return" /\ Len(rows) = 1 /\ QualifyingLinks(rows[1]) # {}) =>
        \A i \in SizeClassCells(rows[1]) :
            CellText(rows[1], i) # <<>> =>
                /\ Len(content_list) = 1
                /\ content_list[1].itemSize = CellText(rows[1], i)

\* C3, amended: when the first cell of class 'size' of a row has a
\* non-empty trimmed text, itemSize is that text, even if another cell
\* (an earlier one too) matches the size pattern; the scan of all cells
\* decides only when there is no cell of class 'size' or the first one's
\* trimmed text is empty.
C3_FirstSizeCell ==
    (pc = "return" /\ Len(rows) = 1 /\ QualifyingLinks(rows[1]) # {}) =>
        /\ FirstSizeCellFilled(rows[1]) =>
              /\ Len(content_list) = 1
              /\ content_list[1].itemSize
                     = CellText(rows[1], Least(SizeClassCells(rows[1])))
        /\ (content_list # <<>> /\ ~FirstSizeCellFilled(rows[1])) =>
              /\ AcceptedCells(rows[1]) # {}
              /\ content_list[1].itemSize
                     = CellText(rows[1], Least(AcceptedCells(rows[1])))

\* A cell of class 'size' after a cell that matches the size pattern.
C3_Witness ==
    /\ pc = "return"
    /\ Len(rows) = 1
    /\ Len(rows[1].cells) = 2
    /\ rows[1].cells[1] = Cell({}, <<Size400M>>)
    /\ rows[1].cells[2].class = {"size"}
    /\ Len(content_list) = 1
    /\ content_list[1].itemSize = Size65GiB

\* The rows the scan of all cells decides: with a qualifying link, and no
\* first cell of class 'size' with a text.
ScanDecides(rs) ==
    /\ Len(rs) = 1
    /\ QualifyingLinks(rs[1]) # {}
    /\ ~FirstSizeCellFilled(rs[1])

\* C4 as stated: the number of the pattern may be absent, so that a cell
\* is accepted exactly when its trimmed text ends with a unit.
C4_NumberOptional ==
    (pc = "return" /\ ScanDecides(rows)) =>
        (content_list # <<>> <=>
            \E i \in 1..Len(rows[1].cells) : EndsWithUnit(CellText(rows[1], i)))

\* C4, amended: in the scan of all cells a cell's trimmed text is accepted
\* exactly when it ends with a number (digits, optionally '.' and digits;
\* it is required), then at most one whitespace character, then K, M, G,
\* T or P optionally followed by 'iB' or 'B', or 'bytes', whatever the
\* case; the first accepted cell gives itemSize, and a plain cell '400M'
\* is accepted.
C4_SizePattern ==
    (pc = "return" /\ ScanDecides(rows)) =>
        /\ content_list # <<>> <=> AcceptedCells(rows[1]) # {}
        /\ content_list # <<>> =>
              content_list[1].itemSize = CellText(rows[1], Least(AcceptedCells(rows[1])))
        /\ (\E i \in 1..Len(rows[1].cells) : CellText(rows[1], i) = Size400M) =>
              content_list # <<>>

\* A plain cell '400M' after a cell that is not a size.
C4_Witness ==
    /\ pc = "return"
    /\ ScanDecides(rows)
    /\ Len(rows[1].cells) = 2
    /\ CellText(rows[1], 1) = <<"b", "i", "g">>
    /\ rows[1].cells[2] = Cell({}, <<Size400M>>)
    /\ Len(content_list) = 1
    /\ content_list[1].itemSize = Size400M

-----------------------------------------------------------------------------
(* generate_ini_format                                                     *)

MaxEntries == 2

KeyItemTitle   == <<"i", "t", "e", "m", "T", "i", "t", "l", "e", "=">>
KeyItemVersion == <<"i", "t", "e", "m", "V", "e", "r", "s", "i", "o", "n", "=">>
KeyItemAuthor  == <<"i", "t", "e", "m", "A", "u", "t", "h", "o", "r", "=">>
KeyItemSize    == <<"i", "t", "e", "m", "S", "i", "z", "e", "=">>
KeyPath        == <<"p", "a", "t", "h", "=">>
KeyDataurl     == <<"d", "a", "t", "a", "u", "r", "l", "=">>

\* A line appended only if its value is not empty (if entry[...]:).
line_if(key, value) == IF value # <<>> THEN <<key \o value>> ELSE <<>>

\* Mutant: the itemSize line is appended whatever its value.
entry_lines_sizealways(entry) ==
    << <<"\n", "[">> \o entry.unique_title \o <<"]">>,
       KeyItemTitle \o entry.itemTitle >>
    \o line_if(KeyItemVersion, entry.itemVersion)
    \o line_if(KeyItemAuthor, entry.itemAuthor)
    \o << KeyItemSize \o entry.itemSize,
          KeyPath \o entry.path,
          KeyDataurl \o entry.dataurl >>

\* Mutant: the header is appended without its leading newline.
entry_lines_noblank(entry) ==
    << <<"[">> \o entry.unique_title \o <<"]">>,
       KeyItemTitle \o entry.itemTitle >>
    \o line_if(KeyItemVersion, entry.itemVersion)
    \o line_if(KeyItemAuthor, entry.itemAuthor)
    \o line_if(KeyItemSize, entry.itemSize)
    \o << KeyPath \o entry.path,
          KeyDataurl \o entry.dataurl >>

\* Lines 131-146: what one entry appends to ini_content.
entry_lines(entry) ==
    << <<"\n", "[">> \o entry.unique_title \o <<"]">>,
       KeyItemTitle \o entry.itemTitle >>
    \o line_if(KeyItemVersion, entry.itemVersion)
    \o line_if(KeyItemAuthor, entry.itemAuthor)
    \o line_if(KeyItemSize, entry.itemSize)
    \o << KeyPath \o entry.path,
          KeyDataurl \o entry.dataurl >>

RECURSIVE ini_content(_)
ini_content(db) ==
    IF db = <<>> THEN <<>> ELSE entry_lines(Head(db)) \o ini_content(Tail(db))

\* '\n'.join(lines)
RECURSIVE join_newline(_)
join_newline(lines) ==
    IF lines = <<>> THEN <<>>
    ELSE IF Len(lines) = 1 THEN lines[1]
    ELSE lines[1] \o <<"\n">> \o join_newline(Tail(lines))

generate_ini_format(db) == join_newline(ini_content(db))

-----------------------------------------------------------------------------
(* The specification of generate_ini_format: a list of records is drawn    *)
(* and the function applied.                                               *)

Entry(t, it, v, a, s, p, d) ==
    [unique_title |-> t, itemTitle |-> it, itemVersion |-> v, itemAuthor |-> a,
     itemSize |-> s, path |-> p, dataurl |-> d]

\* The records drawn: each of the three optional fields empty or not; each
\* of the other fields empty or not; and values that hold a newline, a
\* bracket or an equals sign.
Entries ==
    {Entry(<<"a">>, FileZip, v, a, s, <<"d">>, HrefFile) :
        v \in {<<>>, <<"1">>}, a \in {<<>>, <<"m">>}, s \in {<<>>, Size1K}}
    \cup {Entry(t, it, <<>>, <<>>, Size1K, p, d) :
        t \in {<<>>, <<"b">>}, it \in {<<>>, <<"b">>},
        p \in {<<>>, <<"d">>}, d \in {<<>>, <<"u">>}}
    \cup {Entry(<<"c">>, <<"c", "\n", "[", "x">>, <<>>, <<>>, Size1K, <<"d">>, <<"u">>),
          Entry(<<"c">>, <<"c">>, <<>>, <<>>, Size1K, <<"d">>, <<"u", "\n">>),
          Entry(<<"c">>, <<"c">>, <<>>, <<>>, Size1K, <<"\n", "d">>, <<"u">>),
          Entry(<<"[", "c", "]">>, <<"c", "=", "]">>, <<"[">>, <<>>, Size1K, <<"d">>,
                <<"u", "=", "1">>)}

InitIni ==
    /\ pc = "call"
    /\ database \in SeqsUpTo(Entries, MaxEntries)
    /\ ini_result = <<>>
    /\ IdleTitle /\ IdleUrl /\ IdleParse /\ IdleMain

GenerateIniFormat ==
    /\ pc = "call"
    /\ ini_result' = generate_ini_format(database)
    /\ pc' = "return"
    /\ UNCHANGED <<title, cleaned, url, path_value, rows, content_list, database,
                   html_file, stdout, stderr, exit_code>>

NextIni == GenerateIniFormat

SpecIni == InitIni /\ [][NextIni]_vars

-----------------------------------------------------------------------------
(* Claims about generate_ini_format.                                       *)

\* The lines of a text: its pieces between newlines.
RECURSIVE SplitLines(_)
SplitLines(s) ==
    IF \A i \in 1..Len(s) : s[i] # "\n" THEN <<s>>
    ELSE LET n == CHOOSE i \in 1..Len(s) : s[i] = "\n" /\ \A j \in 1..(i-1) : s[j] # "\n"
         IN  <<SubSeq(s, 1, n - 1)>> \o SplitLines(SubSeq(s, n + 1, Len(s)))

\* The indices of the lines that begin with '[', in order.
HeaderLines(lines) == {i \in 1..Len(lines) : lines[i] # <<>> /\ lines[i][1] = "["}

RECURSIVE Ascending(_)
Ascending(S) ==
    IF S = {} THEN <<>> ELSE <<Least(S)>> \o Ascending(S \ {Least(S)})

HasNewline(s) == \E i \in 1..Len(s) : s[i] = "\n"

NoNewlineIn(entry) ==
    /\ ~HasNewline(entry.unique_title) /\ ~HasNewline(entry.itemTitle)
    /\ ~HasNewline(entry.itemVersion) /\ ~HasNewline(entry.itemAuthor)
    /\ ~HasNewline(entry.itemSize) /\ ~HasNewline(entry.path)
    /\ ~HasNewline(entry.dataurl)

\* C8 as stated: for any list of N records the output holds exactly N
\* lines that begin with '['.
C8_AnyRecords ==
    pc = "return" =>
        /\ database = <<>> => ini_result = <<>>
        /\ database # <<>> =>
              Cardinality(HeaderLines(SplitLines(ini_result))) = Len(database)

\* C8, amended: the output for no record is the empty string; for N
\* records none of whose values holds a newline it has exactly N lines
\* that begin with '[', the i-th being the header of record i, and its
\* blank lines are exactly one before each header: one between any two
\* consecutive sections.
C8_HeadersAndBlankLines ==
    pc = "return" =>
        /\ database = <<>> => ini_result = <<>>
        /\ (database # <<>> /\ \A i \in 1..Len(database) : NoNewlineIn(database[i])) =>
              LET lines == SplitLines(ini_result)
                  heads == Ascending(HeaderLines(lines))
              IN  /\ Len(heads) = Len(database)
                  /\ \A i \in 1..Len(heads) :
                        lines[heads[i]] = <<"[">> \o database[i].unique_title \o <<"]">>
                  /\ {i \in 1..Len(lines) : lines[i] = <<>>}
                        = {heads[i] - 1 : i \in 1..Len(heads)}

\* Two records without newlines, the second with an empty unique_title.
C8_Witness ==
    /\ pc = "return"
    /\ Len(database) = 2
    /\ NoNewlineIn(database[1]) /\ NoNewlineIn(database[2])
    /\ database[1].unique_title = <<"a">>
    /\ database[2].unique_title = <<>>
    /\ Len(SplitLines(ini_result)) >= 10

\* The lines of a record's section: the header, then each field as
\* key=value with the value as it is, the three optional ones only when
\* not empty.
SectionOf(entry) ==
    LET fields == << <<KeyItemTitle, entry.itemTitle, TRUE>>,
                     <<KeyItemVersion, entry.itemVersion, FALSE>>,
                     <<KeyItemAuthor, entry.itemAuthor, FALSE>>,
                     <<KeyItemSize, entry.itemSize, FALSE>>,
                     <<KeyPath, entry.path, TRUE>>,
                     <<KeyDataurl, entry.dataurl, TRUE>> >>
        Emitted(f) == f[3] \/ f[2] # <<>>
        kept == SelectSeq(fields, Emitted)
    IN  <<"\n", "[">> \o entry.unique_title \o <<"]">>
        \o Concat([i \in 1..Len(kept) |-> <<"\n">> \o kept[i][1] \o kept[i][2]])

\* C10: each record gives the lines [uniqueTitle], itemTitle, itemVersion,
\* itemAuthor, itemSize, path, dataurl in this order, itemTitle, path and
\* dataurl always, the three others only when their value is not empty,
\* every value written as it is.
C10_SectionLayout ==
    pc = "return" =>
        ini_result = Concat([i \in 1..Len(database) |->
                                (IF i = 1 THEN <<>> ELSE <<"\n">>) \o SectionOf(database[i])])

\* A record with one optional field set, an empty itemSize, and brackets
\* and equals signs in its values.
C10_Witness ==
    /\ pc = "return"
    /\ Len(database) = 1
    /\ database[1].unique_title = <<"[", "c", "]">>
    /\ database[1].itemVersion = <<"[">>
    /\ database[1].itemAuthor = <<>>
    /\ Len(SplitLines(ini_result)) = 7

-----------------------------------------------------------------------------
(* main, from the reading of the file on (lines 167-195).  The file named  *)
(* on the command line is missing, unreadable, or holds a document.  The   *)
(* second try block may meet an error the code does not expect: the        *)
(* parser refusing to start (BeautifulSoup raising), or print failing on   *)
(* standard output after writing some of the text.                         *)

Files ==
    {[status |-> "missing", rows |-> <<>>], [status |-> "unreadable", rows |-> <<>>]}
    \cup {[status |-> "ok", rows |-> d] : d \in DocsRows}

InitMain ==
    /\ pc = "start"
    /\ html_file \in Files
    /\ stdout = <<>> /\ stderr = <<>> /\ exit_code = -1
    /\ IdleTitle /\ IdleUrl /\ IdleParse /\ IdleIni

\* Lines 168-170: the file is read.
ReadFileOk ==
    /\ pc = "start"
    /\ html_file.status = "ok"
    /\ rows' = html_file.rows
    /\ pc' = "process"
    /\ UNCHANGED <<title, cleaned, url, path_value, content_list, database,
                   ini_result, html_file, stdout, stderr, exit_code>>

\* Lines 172-174: FileNotFoundError.
ReadFileNotFound ==
    /\ pc = "start"
    /\ html_file.status = "missing"
    /\ stderr' = stderr \o <<"file_not_found">>
    /\ exit_code' = 1
    /\ pc' = "exit"
    /\ UNCHANGED <<title, cleaned, url, path_value, rows, content_list, database,
                   ini_result, html_file, stdout>>

\* Lines 175-177: any other exception while reading.
ReadFileError ==
    /\ pc = "start"
    /\ html_file.status = "unreadable"
    /\ stderr' = stderr \o <<"read_error">>
    /\ exit_code' = 1
    /\ pc' = "exit"
    /\ UNCHANGED <<title, cleaned, url, path_value, rows, content_list, database,
                   ini_result, html_file, stdout>>

\* Mutant: no record taken for an error, sys.exit(1).
ProcessNoRecords_exit1 ==
    /\ pc = "process"
    /\ parse_html_to_database(rows) = <<>>
    /\ database' = <<>>
    /\ stderr' = stderr \o parse_stderr(rows) \o <<"no_records_warning">>
    /\ exit_code' = 1
    /\ pc' = "exit"
    /\ UNCHANGED <<title, cleaned, url, path_value, rows, content_list,
                   ini_result, html_file, stdout>>

\* Lines 181-185: no record; the warning, and sys.exit(0), whose SystemExit
\* is no Exception and passes the handler of line 193.
ProcessNoRecords ==
    /\ pc = "process"
    /\ parse_html_to_database(rows) = <<>>
    /\ database' = <<>>
    /\ stderr' = stderr \o parse_stderr(rows) \o <<"no_records_warning">>
    /\ exit_code' = 0
    /\ pc' = "exit"
    /\ UNCHANGED <<title, cleaned, url, path_value, rows, content_list,
                   ini_result, html_file, stdout>>

\* Lines 181-191: records; the INI text is printed, and main returns.
ProcessPrint ==
    /\ pc = "process"
    /\ parse_html_to_database(rows) # <<>>
    /\ database' = parse_html_to_database(rows)
    /\ ini_result' = generate_ini_format(database')
    /\ stdout' = stdout \o ini_result' \o <<"\n">>
    /\ stderr' = stderr \o parse_stderr(rows)
    /\ exit_code' = 0
    /\ pc' = "exit"
    /\ UNCHANGED <<title, cleaned, url, path_value, rows, content_list, html_file>>

\* Lines 181, 193-195: the parser raises before any row is looked at.
ProcessParserError ==
    /\ pc = "process"
    /\ stderr' = stderr \o <<"unexpected_error">>
    /\ exit_code' = 1
    /\ pc' = "exit"
    /\ UNCHANGED <<title, cleaned, url, path_value, rows, content_list, database,
                   ini_result, html_file, stdout>>

\* Lines 191, 193-195: print raises, some of the text written or none.
ProcessPrintError ==
    /\ pc = "process"
    /\ parse_html_to_database(rows) # <<>>
    /\ database' = parse_html_to_database(rows)
    /\ ini_result' = generate_ini_format(database')
    /\ \E n \in 0..Len(ini_result') : stdout' = stdout \o Take(ini_result', n)
    /\ stderr' = stderr \o parse_stderr(rows) \o <<"unexpected_error">>
    /\ exit_code' = 1
    /\ pc' = "exit"
    /\ UNCHANGED <<title, cleaned, url, path_value, rows, content_list, html_file>>

NextMain ==
    \/ ReadFileOk
    \/ ReadFileNotFound
    \/ ReadFileError
    \/ ProcessNoRecords
    \/ ProcessPrint
    \/ ProcessParserError
    \/ ProcessPrintError

SpecMain == InitMain /\ [][NextMain]_vars

-----------------------------------------------------------------------------
(* Claims about main.                                                      *)

Printed(msg) == \E i \in 1..Len(stderr) : stderr[i] = msg

\* The rows of the file, one of which qualifies.
FileHasRecord ==
    \E i \in 1..Len(html_file.rows) : IsQualifyingRow(html_file.rows[i])

\* C9: main exits with 1 when the file is missing or unreadable or an
\* unexpected error is raised while processing; with 0, after a warning on
\* the error stream and with nothing on standard output, when no record
\* is extracted; and otherwise with 0 after writing the INI text of the
\* records to standard output.
C9_ExitCodes ==
    pc = "exit" =>
        /\ exit_code \in {0, 1}
        /\ exit_code = 1 <=>
              \/ html_file.status \in {"missing", "unreadable"}
              \/ Printed("unexpected_error")
        /\ html_file.status = "missing" => Printed("file_not_found")
        /\ html_file.status = "unreadable" => Printed("read_error")
        /\ (exit_code = 0 /\ ~FileHasRecord) =>
              /\ Printed("no_records_warning")
              /\ stdout = <<>>
        /\ Printed("no_records_warning") => (exit_code = 0 /\ ~FileHasRecord)
        /\ (exit_code = 0 /\ FileHasRecord) =>
              /\ ~Printed("no_records_warning")
              /\ Len(database) = Len(QualifyingRowsFrom(html_file.rows, 1))
              /\ stdout = ini_result \o <<"\n">>
              /\ ini_result = Concat([i \in 1..Len(database) |->
                                         (IF i = 1 THEN <<>> ELSE <<"\n">>)
                                         \o SectionOf(database[i])])

\* A readable file whose rows give no record: the warning, exit code 0.
C9_Witness ==
    /\ pc = "exit"
    /\ html_file.status = "ok"
    /\ Len(html_file.rows) = 2
    /\ exit_code = 0
    /\ stdout = <<>>
    /\ Printed("no_records_warning")

====
